---------------------------- MODULE Spec2Model ----------------------------
(***************************************************************************)
(* Model of photutils.detection._utils._StarFinderKernel.__init__, the     *)
(* constructor of the 2D elliptical Gaussian density-enhancement kernel.   *)
(*                                                                         *)
(* One construction is a run of the state machine: Call binds the          *)
(* arguments, then one action per block of the constructor, in program     *)
(* order.  `self' is the instance dictionary (attribute name -> value),    *)
(* `locals' the local variables, `error' the exception raised (if any),    *)
(* and `returned' says whether the caller received the object.             *)
(*                                                                         *)
(* Numbers.  A binary64 value is modelled by a record [k, n, d, r]:        *)
(*   k = "fin"  the rational n/d in lowest terms, d > 0                    *)
(*   k = "inf"  an infinity of sign n                                      *)
(*   k = "nan"  not-a-number                                               *)
(*   k = "eps"  a non-zero value of sign n below the model's resolution    *)
(*              (cos(deg2rad(90)) is 6.1e-17 in binary64, not 0)           *)
(* with r the rounding of the value.  The sigmas, the products of cos and  *)
(* sin and the coefficients a, b and c are followed bit for bit (sign,     *)
(* 53-bit significand, exponent; round to nearest, ties to even), and r    *)
(* holds those bits.  The roundings of the later values (np.exp, the sums  *)
(* over the grid) are not followed: r marks such a value, and == between   *)
(* two of them with the same n/d is left undecided.  The n/d part follows  *)
(* exact rational arithmetic; division by zero and the propagation of inf  *)
(* and nan follow IEEE 754 as numpy applies it.  exp is evaluated in fixed *)
(* point with ExpScale steps per unit.  Square roots are kept symbolic:    *)
(* floor and comparisons of a root are decided on the radicand.            *)
(***************************************************************************)
EXTENDS Integers, FiniteSets, Sequences, TLC

(* ------------------------------ bounds -------------------------------- *)
\* fwhm ranges over the integers -1 .. MaxFwhm
MaxFwhm == 4
\* ratio ranges over k / RatioDen, k in 0 .. MaxRatioNum
RatioDen == 4
MaxRatioNum == 5
\* sigma_radius ranges over k / SigmaDen, k in 0 .. MaxSigmaNum
SigmaDen == 2
MaxSigmaNum == 4
\* theta ranges over 45 * k degrees, k in 0 .. MaxThetaStep
MaxThetaStep == 3
\* resolution of the fixed-point exponential, and terms of its series
ExpScale == 1000
ExpTerms == 8

(* --------------------------- evaluation order ------------------------- *)
\* Python evaluates an operand once, before the operation that uses it.
\* With(x, LAMBDA v : e) is e with v bound to the value of x.
With(x, F(_)) == CHOOSE res \in {F(v) : v \in {x}} : TRUE

(* ----------------------- naturals of any size ------------------------- *)
\* The 53-bit significands of binary64 and their products and quotients do
\* not fit a machine integer: a natural is a sequence of digits to the base
\* 2^15, least significant first, without leading zeros.
Abs(i) == IF i < 0 THEN -i ELSE i

Sgn(i) == IF i > 0 THEN 1 ELSE IF i < 0 THEN -1 ELSE 0

RECURSIVE Pow2(_)
Pow2(j) == IF j = 0 THEN 1 ELSE 2 * Pow2(j - 1)

Base == Pow2(15)

Limb(x, i) == IF i <= Len(x) THEN x[i] ELSE 0

\* the digits of x up to its last non-zero one
TrimDigits(x) ==
    IF \A i \in 1 .. Len(x) : x[i] = 0 THEN <<>>
    ELSE SubSeq(x, 1, CHOOSE i \in 1 .. Len(x) :
                         x[i] # 0 /\ \A j \in i + 1 .. Len(x) : x[j] = 0)

NTrim(x) == With(x, LAMBDA p : TrimDigits(p))

RECURSIVE NFromInt(_)
NFromInt(i) == IF i = 0 THEN <<>> ELSE <<i % Base>> \o NFromInt(i \div Base)

RECURSIVE NAddFrom(_, _, _, _)
NAddFrom(x, y, i, carry) ==
    IF i > Len(x) /\ i > Len(y)
    THEN IF carry = 0 THEN <<>> ELSE <<carry>>
    ELSE With(Limb(x, i) + Limb(y, i) + carry,
              LAMBDA t : <<t % Base>> \o NAddFrom(x, y, i + 1, t \div Base))

NAdd(x, y) == With(x, LAMBDA p : With(y, LAMBDA q : NAddFrom(p, q, 1, 0)))

\* x - y for x >= y
RECURSIVE NSubFrom(_, _, _, _)
NSubFrom(x, y, i, borrow) ==
    IF i > Len(x) THEN <<>>
    ELSE With(x[i] - Limb(y, i) - borrow,
              LAMBDA t : <<(t + Base) % Base>>
                  \o NSubFrom(x, y, i + 1, IF t < 0 THEN 1 ELSE 0))

NSub(x, y) ==
    With(x, LAMBDA p : With(y, LAMBDA q : NTrim(NSubFrom(p, q, 1, 0))))

RECURSIVE NCmpFrom(_, _, _)
NCmpFrom(x, y, i) ==
    IF i = 0 THEN 0
    ELSE IF x[i] # y[i] THEN Sgn(x[i] - y[i])
    ELSE NCmpFrom(x, y, i - 1)

\* -1, 0 or 1 as x is less than, equal to or greater than y
NCmp(x, y) ==
    With(x, LAMBDA p : With(y, LAMBDA q :
        IF Len(p) # Len(q) THEN Sgn(Len(p) - Len(q))
        ELSE NCmpFrom(p, q, Len(p))))

RECURSIVE NMulSmallFrom(_, _, _, _)
NMulSmallFrom(x, k, i, carry) ==
    IF i > Len(x)
    THEN IF carry = 0 THEN <<>> ELSE <<carry>>
    ELSE With(x[i] * k + carry,
              LAMBDA t : <<t % Base>> \o NMulSmallFrom(x, k, i + 1, t \div Base))

\* x * k for 0 <= k <= Base
NMulSmall(x, k) ==
    With(x, LAMBDA p : With(k, LAMBDA m :
        IF m = 0 THEN <<>> ELSE NMulSmallFrom(p, m, 1, 0)))

NShiftLimbs(x, j) ==
    With(x, LAMBDA p : IF p = <<>> THEN p ELSE [i \in 1 .. j |-> 0] \o p)

RECURSIVE NMulFrom(_, _, _)
NMulFrom(x, y, j) ==
    IF j > Len(y) THEN <<>>
    ELSE NAdd(NShiftLimbs(NMulSmall(x, y[j]), j - 1), NMulFrom(x, y, j + 1))

NMul(x, y) == With(x, LAMBDA p : With(y, LAMBDA q : NMulFrom(p, q, 1)))

\* x * 2^b
NShl(x, b) == NMulSmall(NShiftLimbs(x, b \div 15), Pow2(b % 15))

RECURSIVE NDivSmallFrom(_, _, _, _)
NDivSmallFrom(x, k, i, rem) ==
    IF i = 0 THEN <<>>
    ELSE With(rem * Base + x[i],
              LAMBDA t : NDivSmallFrom(x, k, i - 1, t % k) \o <<t \div k>>)

\* x div 2^b
NShr(x, b) ==
    With(x, LAMBDA p : With(b, LAMBDA c :
        IF c \div 15 >= Len(p) THEN <<>>
        ELSE With(SubSeq(p, c \div 15 + 1, Len(p)), LAMBDA y :
                 With(Pow2(c % 15), LAMBDA k :
                     NTrim(NDivSmallFrom(y, k, Len(y), 0))))))

RECURSIVE BitLenSmall(_)
BitLenSmall(i) == IF i = 0 THEN 0 ELSE 1 + BitLenSmall(i \div 2)

NBitLen(x) ==
    With(x, LAMBDA p :
        IF p = <<>> THEN 0 ELSE 15 * (Len(p) - 1) + BitLenSmall(p[Len(p)]))

\* the largest k <= guess with k * d <= r
RECURSIVE NFit(_, _, _)
NFit(r, d, guess) ==
    IF NCmp(NMulSmall(d, guess), r) <= 0 THEN guess ELSE NFit(r, d, guess - 1)

\* the digit r div d for r < d * Base and a d whose leading digit is at
\* least Base / 2: the quotient of the leading digits is at most 2 too large
NDigit(r, d) ==
    With((Limb(r, Len(d) + 1) * Base + Limb(r, Len(d))) \div d[Len(d)],
         LAMBDA guess : NFit(r, d, IF guess >= Base THEN Base - 1 ELSE guess))

\* long division, a digit at a time from the top: q collects the digits of
\* the quotient, r is the remainder so far
RECURSIVE NDivFrom(_, _, _, _, _)
NDivFrom(n, d, i, q, r) ==
    IF i = 0 THEN [q |-> q, r |-> r]
    ELSE With(NTrim(<<n[i]>> \o r), LAMBDA r1 :
             With(NDigit(r1, d), LAMBDA k :
                 With(NSub(r1, NMulSmall(d, k)), LAMBDA r2 :
                     With(<<k>> \o q, LAMBDA q2 :
                         NDivFrom(n, d, i - 1, q2, r2)))))

\* quotient q and remainder r of n by d > 0; both are first scaled to give
\* d a leading digit of at least Base / 2
NDivMod(n, d) ==
    With(15 - BitLenSmall(d[Len(d)]), LAMBDA up :
        With(NShl(n, up), LAMBDA n1 :
            With(NShl(d, up), LAMBDA d1 :
                With(NDivFrom(n1, d1, Len(n1), <<>>, <<>>), LAMBDA res :
                    [q |-> NTrim(res.q), r |-> NShr(res.r, up)]))))

\* the natural written in groups of four decimal digits, most significant
\* first
RECURSIVE NDecFrom(_, _, _)
NDecFrom(groups, i, acc) ==
    IF i > Len(groups) THEN acc
    ELSE With(NAdd(NMulSmall(acc, 10000), NFromInt(groups[i])),
              LAMBDA acc2 : NDecFrom(groups, i + 1, acc2))

NDec(groups) == NDecFrom(groups, 1, <<>>)

(* ------------------- binary64 values, bit for bit --------------------- *)
\* c = "num": s * m * 2^e with m a natural of exactly 53 bits; the zeros are
\* not told apart by sign (the constructor never divides by a negative zero
\* and -0.0 == 0.0).  Exponents stay far inside the binary64 range.
BNum(s, m, e) == [c |-> "num", s |-> s, m |-> m, e |-> e]

BZero == [c |-> "zero", s |-> 0, m |-> <<>>, e |-> 0]

BInf(s) == [c |-> "inf", s |-> s, m |-> <<>>, e |-> 0]

BNaN == [c |-> "nan", s |-> 0, m |-> <<>>, e |-> 0]

\* s * n * 2^e for a natural n of more than 53 bits (plus a non-zero
\* fraction of the last place of n when sticky), rounded to nearest, ties to
\* even
RoundDown(s, n, e, sticky, sh) ==
    With(NShr(n, sh), LAMBDA q :
        With(NCmp(NSub(n, NShl(q, sh)), NShl(<<1>>, sh - 1)), LAMBDA cmp :
            With(IF cmp > 0 \/ (cmp = 0 /\ (sticky \/ q[1] % 2 = 1))
                 THEN NAdd(q, <<1>>) ELSE q,
                 LAMBDA q1 :
                     IF NBitLen(q1) > 53
                     THEN BNum(s, NShr(q1, 1), e + sh + 1)
                     ELSE BNum(s, q1, e + sh))))

\* s * N * 2^e as a binary64 number
BRound(s, N, e, sticky) ==
    With(N, LAMBDA n :
        With(NBitLen(n), LAMBDA len :
            IF len <= 53
            THEN BNum(s, NShl(n, 53 - len), e - (53 - len))
            ELSE RoundDown(s, n, e, sticky, len - 53)))

BInt(i) ==
    IF i = 0 THEN BZero ELSE BRound(Sgn(i), NFromInt(Abs(i)), 0, FALSE)

BNeg(x) == With(x, LAMBDA p : [p EXCEPT !.s = -p.s])

MulBits(x, y) ==
    CASE x.c = "nan" \/ y.c = "nan" -> BNaN
      [] {x.c, y.c} \subseteq {"num", "zero", "inf"} /\ "inf" \in {x.c, y.c} ->
            IF "zero" \in {x.c, y.c} THEN BNaN ELSE BInf(x.s * y.s)
      [] {x.c, y.c} \subseteq {"num", "zero"} /\ "zero" \in {x.c, y.c} -> BZero
      [] x.c = "num" /\ y.c = "num" ->
            BRound(x.s * y.s, NMul(x.m, y.m), x.e + y.e, FALSE)

BMul(x, y) == With(x, LAMBDA p : With(y, LAMBDA q : MulBits(p, q)))

\* numpy's true division: x/0 is an infinity, 0/0 is nan, both with a warning
DivBits(x, y) ==
    CASE x.c = "nan" \/ y.c = "nan" -> BNaN
      [] x.c # "nan" /\ y.c = "inf" -> IF x.c = "inf" THEN BNaN ELSE BZero
      [] x.c # "nan" /\ y.c = "zero" ->
            IF x.c = "zero" THEN BNaN ELSE BInf(x.s)
      [] x.c = "inf" /\ y.c = "num" -> BInf(x.s * y.s)
      [] x.c = "zero" /\ y.c = "num" -> BZero
      [] x.c = "num" /\ y.c = "num" ->
            With(NDivMod(NShl(x.m, 55), y.m), LAMBDA res :
                BRound(x.s * y.s, res.q, x.e - 55 - y.e, res.r # <<>>))

BDiv(x, y) == With(x, LAMBDA p : With(y, LAMBDA q : DivBits(p, q)))

\* the difference or sum of two aligned significands X of sign sx and Y of
\* sign sy, times 2^e
AddAligned(sx, X, sy, Y, e) ==
    IF sx = sy THEN BRound(sx, NAdd(X, Y), e, FALSE)
    ELSE With(NCmp(X, Y), LAMBDA cmp :
             IF cmp = 0 THEN BZero
             ELSE IF cmp > 0 THEN BRound(sx, NSub(X, Y), e, FALSE)
             ELSE BRound(sy, NSub(Y, X), e, FALSE))

\* x + y for two numbers with x.e >= y.e; a y more than 60 places below x
\* acts only as a residue below the last place
BAddAligned(x, y) ==
    IF x.e - y.e > 60
    THEN With(NShl(x.m, 3), LAMBDA X : AddAligned(x.s, X, y.s, <<1>>, x.e - 3))
    ELSE With(NShl(x.m, x.e - y.e), LAMBDA X :
             AddAligned(x.s, X, y.s, y.m, y.e))

AddBits(x, y) ==
    CASE x.c = "nan" \/ y.c = "nan" -> BNaN
      [] x.c = "inf" /\ y.c = "inf" -> IF x.s = y.s THEN x ELSE BNaN
      [] x.c = "inf" /\ y.c \in {"num", "zero"} -> x
      [] y.c = "inf" /\ x.c \in {"num", "zero"} -> y
      [] x.c = "zero" /\ y.c \in {"num", "zero"} -> y
      [] x.c = "num" /\ y.c = "zero" -> x
      [] x.c = "num" /\ y.c = "num" ->
            IF x.e >= y.e THEN BAddAligned(x, y) ELSE BAddAligned(y, x)

BAdd(x, y) == With(x, LAMBDA p : With(y, LAMBDA q : AddBits(p, q)))

BSub(x, y) == BAdd(x, BNeg(y))

\* the Python float n / d of two integers
BRat(n, d) == IF d = 1 THEN BInt(n) ELSE BDiv(BInt(n), BInt(d))

(* -------------------- binary64 values, as numbers --------------------- *)
\* A value the constructor computes is a record [k, n, d, r]:
\*   k = "fin"  the rational n/d in lowest terms, d > 0
\*   k = "inf"  an infinity of sign n
\*   k = "nan"  not-a-number
\*   k = "eps"  a non-zero value of sign n below the resolution
\* and r tells how the value was rounded:
\*   r = {}            n/d is the value exactly
\*   r = {b}           the value is the binary64 number b, bit for bit
\*   r = {Unfollowed}  the value is n/d up to roundings that are not
\*                     followed (np.exp, the sums over the grid)
\* The binary64 number of a value is known in the first two cases only.
RECURSIVE Gcd(_, _)
Gcd(i, j) == IF j = 0 THEN i ELSE Gcd(j, i % j)

Num(k, n, d) == [k |-> k, n |-> n, d |-> d, r |-> {}]

Fin(n, d) ==
    LET s == IF d < 0 THEN -1 ELSE 1
        g0 == Gcd(Abs(n), Abs(d))
        g == IF g0 = 0 THEN 1 ELSE g0
    IN  Num("fin", (s * n) \div g, (s * d) \div g)

FInt(i) == Num("fin", i, 1)

NaN == Num("nan", 0, 1)

Inf(s) == Num("inf", s, 1)

Eps(s) == Num("eps", s, 1)

IsNaN(x) == x.k = "nan"

Sign(x) == Sgn(x.n)

\* the same number up to rounding
SameValue(x, y) == x.k = y.k /\ x.n = y.n /\ x.d = y.d

\* the mark of a value whose roundings are not followed
Unfollowed == [c |-> "any", s |-> 0, m |-> <<>>, e |-> 0]

\* the binary64 number of x is known
Followed(x) == Unfollowed \notin x.r

\* the residue of the result of an operation on operands of residues r:
\* exact operands give an exact result, any rounding makes it unfollowed
Carried(r) == IF r = {} THEN {} ELSE {Unfollowed}

\* exactly zero
ExactZero(x) == x.k = "fin" /\ x.n = 0 /\ x.r = {}

\* v with the residue r; an infinity or a nan has none
Rounded(v, r) ==
    With(v, LAMBDA p : [p EXCEPT !.r = IF p.k \in {"inf", "nan"} THEN {} ELSE r])

FNeg(x) == With(x, LAMBDA p : [p EXCEPT !.n = -p.n])

MulValue(x, y) ==
    CASE IsNaN(x) \/ IsNaN(y) -> NaN
      [] ~(IsNaN(x) \/ IsNaN(y)) /\ (x.k = "inf" \/ y.k = "inf") ->
            IF Sign(x) * Sign(y) = 0 THEN NaN ELSE Inf(Sign(x) * Sign(y))
      [] {x.k, y.k} \subseteq {"fin", "eps"} /\ {x.k, y.k} # {"fin"} ->
            IF Sign(x) * Sign(y) = 0 THEN FInt(0) ELSE Eps(Sign(x) * Sign(y))
      [] x.k = "fin" /\ y.k = "fin" ->
            LET g1 == Gcd(Abs(x.n), y.d)
                g2 == Gcd(Abs(y.n), x.d)
            IN  Fin((x.n \div g1) * (y.n \div g2), (x.d \div g2) * (y.d \div g1))

AddValue(x, y) ==
    CASE IsNaN(x) \/ IsNaN(y) -> NaN
      [] x.k = "inf" /\ y.k = "inf" -> IF x.n = y.n THEN x ELSE NaN
      [] x.k = "inf" /\ y.k \in {"fin", "eps"} -> x
      [] y.k = "inf" /\ x.k \in {"fin", "eps"} -> y
      [] x.k = "eps" /\ y.k = "eps" -> IF x.n = y.n THEN x ELSE FInt(0)
      [] x.k = "eps" /\ y.k = "fin" -> IF y.n = 0 THEN x ELSE y
      [] x.k = "fin" /\ y.k = "eps" -> IF x.n = 0 THEN y ELSE x
      [] x.k = "fin" /\ y.k = "fin" ->
            LET g == Gcd(x.d, y.d)
            IN  Fin(x.n * (y.d \div g) + y.n * (x.d \div g), (x.d \div g) * y.d)

\* numpy's true division: x/0 is an infinity, 0/0 is nan, both with a warning
DivValue(x, y) ==
    CASE IsNaN(x) \/ IsNaN(y) -> NaN
      [] ~IsNaN(x) /\ y.k = "inf" -> IF x.k = "inf" THEN NaN ELSE FInt(0)
      [] ~IsNaN(x) /\ y.k = "fin" /\ y.n = 0 ->
            IF Sign(x) = 0 THEN NaN ELSE Inf(Sign(x))
      [] x.k = "inf" /\ y.k = "fin" /\ y.n # 0 -> Inf(Sign(x) * Sign(y))
      [] x.k = "eps" /\ y.k = "fin" /\ y.n # 0 -> Eps(Sign(x) * Sign(y))
      [] x.k = "fin" /\ y.k = "fin" /\ y.n # 0 -> MulValue(x, Fin(y.d, y.n))

\* Arithmetic whose bits are not followed: the result of rounded operands is
\* rounded, and a product or quotient of an exact zero is an exact zero.
FMul(x, y) ==
    With(x, LAMBDA p : With(y, LAMBDA q :
        IF ExactZero(p) \/ ExactZero(q)
        THEN Rounded(MulValue(p, q), {})
        ELSE Rounded(MulValue(p, q), Carried(p.r \cup q.r))))

FAdd(x, y) ==
    With(x, LAMBDA p : With(y, LAMBDA q :
        Rounded(AddValue(p, q), Carried(p.r \cup q.r))))

FSub(x, y) == FAdd(x, FNeg(y))

FDiv(x, y) ==
    With(x, LAMBDA p : With(y, LAMBDA q :
        IF ExactZero(p)
        THEN Rounded(DivValue(p, q), {})
        ELSE Rounded(DivValue(p, q), Carried(p.r \cup q.r))))

\* comparisons with a nan operand are false
FLt(x, y) ==
    With(x, LAMBDA p : With(y, LAMBDA q :
        ~IsNaN(p) /\ ~IsNaN(q) /\ ~SameValue(p, q) /\ Sign(FSub(p, q)) < 0))

FLe(x, y) ==
    With(x, LAMBDA p : With(y, LAMBDA q :
        ~IsNaN(p) /\ ~IsNaN(q) /\ (SameValue(p, q) \/ Sign(FSub(p, q)) < 0)))

FGt(x, y) == FLt(y, x)

\* x == y: nan equals nothing, itself included; two values whose binary64
\* numbers are known are equal when these agree; two values that differ by
\* more than their rounding are unequal.  Whether two unfollowed values of
\* the same n/d are the same binary64 number is not decided.
FEq(x, y) ==
    With(x, LAMBDA p : With(y, LAMBDA q :
        CASE IsNaN(p) \/ IsNaN(q) -> FALSE
          [] ~IsNaN(p) /\ ~IsNaN(q) /\ ~SameValue(p, q)
                /\ ~(Followed(p) /\ Followed(q)) -> FALSE
          [] ~IsNaN(p) /\ ~IsNaN(q) /\ Followed(p) /\ Followed(q) -> p = q))

\* Arithmetic on values whose bits are followed.  Bits(x) is the binary64
\* number x stands for, WithBits(v, b) the value v known to be the binary64
\* number b.
IsPow2(d) == d = Pow2(BitLenSmall(d) - 1)

Bits(x) ==
    With(x, LAMBDA p :
        CASE Followed(p) /\ p.r # {} -> CHOOSE b \in p.r : TRUE
          [] p.r = {} /\ p.k = "nan" -> BNaN
          [] p.r = {} /\ p.k = "inf" -> BInf(p.n)
          [] p.r = {} /\ p.k = "fin" -> BRat(p.n, p.d))

WithBits(v, b) ==
    With(v, LAMBDA p : With(b, LAMBDA q :
        IF q.c # "num" THEN Rounded(p, {})
        ELSE IF p.k = "fin" /\ IsPow2(p.d) /\ BRat(p.n, p.d) = q
        THEN Rounded(p, {})
        ELSE Rounded(p, {q})))

XMul(x, y) ==
    With(x, LAMBDA p : With(y, LAMBDA q :
        WithBits(MulValue(p, q), BMul(Bits(p), Bits(q)))))

XAdd(x, y) ==
    With(x, LAMBDA p : With(y, LAMBDA q :
        WithBits(AddValue(p, q), BAdd(Bits(p), Bits(q)))))

XSub(x, y) ==
    With(x, LAMBDA p : With(y, LAMBDA q :
        WithBits(AddValue(p, FNeg(q)), BSub(Bits(p), Bits(q)))))

XDiv(x, y) ==
    With(x, LAMBDA p : With(y, LAMBDA q :
        WithBits(DivValue(p, q), BDiv(Bits(p), Bits(q)))))

\* the Python float n / d
PyFloat(n, d) == WithBits(Fin(n, d), BRat(n, d))

(* ------------------------------ exp ----------------------------------- *)
\* least j with X <= ExpScale * 2^j
RECURSIVE Halvings(_, _)
Halvings(X, j) == IF X <= ExpScale * Pow2(j) THEN j ELSE Halvings(X, j + 1)

\* alternating series of exp(-y/ExpScale) * ExpScale from term k on
RECURSIVE ExpSeries(_, _, _)
ExpSeries(y, t, k) ==
    IF k > ExpTerms THEN 0
    ELSE LET tk == (t * y) \div (ExpScale * k)
         IN  (IF k % 2 = 1 THEN -tk ELSE tk) + ExpSeries(y, tk, k + 1)

RECURSIVE SquareTimes(_, _)
SquareTimes(r, j) ==
    IF j = 0 THEN r ELSE SquareTimes((r * r) \div ExpScale, j - 1)

\* exp(-X/ExpScale) * ExpScale for X >= 0
ExpFixed(X) ==
    LET j == Halvings(X, 0)
        y == X \div Pow2(j)
    IN  SquareTimes(ExpScale + ExpSeries(y, ExpScale, 1), j)

\* np.exp(-x)
RECURSIVE ExpNegValue(_)
ExpNegValue(x) ==
    CASE IsNaN(x) -> NaN
      [] x.k = "inf" -> IF x.n > 0 THEN FInt(0) ELSE Inf(1)
      [] x.k = "eps" -> FInt(1)
      [] x.k = "fin" /\ x.n >= 0 ->
            Rounded(Fin(ExpFixed((x.n \div x.d) * ExpScale
                                 + ((x.n % x.d) * ExpScale) \div x.d),
                        ExpScale), Carried(x.r))
      [] x.k = "fin" /\ x.n < 0 -> FDiv(FInt(1), ExpNegValue(FNeg(x)))

FExpNeg(x) == With(x, LAMBDA p : ExpNegValue(p))

(* --------------------- cos and sin at multiples of 45 ----------------- *)
\* A value of np.cos / np.sin at theta = 0, 45, ..., 360 degrees: v = "0",
\* "1", "r" (sqrt(1/2)) or "e" (a non-zero rounding residue of the argument
\* theta * (pi / 180)), with sign s, and x the binary64 number returned.
Trig(v, s, x) == [v |-> v, s |-> s, x |-> x]

ThetaStep(theta) == (theta \div 45) % 8

\* 1.0
BOne == BInt(1)

\* 0.7071067811865476 and its three neighbours below and above
BRootHalf(ulps) ==
    BNum(1, NAdd(NDec(<<6369, 516, 7252, 5771>>), NFromInt(ulps + 2)), -53)

\* 6.123233995736766e-17 * 2^j: np.cos(np.pi / 2) scaled
BResidue(j) == BNum(1, NDec(<<4967, 7576, 2, 1511>>), j - 106)

\* 1.8369701987210297e-16: -np.cos(3 * np.pi / 2)
BResidue3 == BNum(1, NDec(<<7451, 6364, 3, 2266>>), -105)

\* np.cos(np.deg2rad(theta))
Cost(theta) ==
    CASE ThetaStep(theta) = 0 -> Trig("1", 1, BOne)
      [] ThetaStep(theta) = 1 -> Trig("r", 1, BRootHalf(0))
      [] ThetaStep(theta) = 2 -> Trig("e", 1, BResidue(0))
      [] ThetaStep(theta) = 3 -> Trig("r", -1, BNeg(BRootHalf(-1)))
      [] ThetaStep(theta) = 4 -> Trig("1", -1, BNeg(BOne))
      [] ThetaStep(theta) = 5 -> Trig("r", -1, BNeg(BRootHalf(1)))
      [] ThetaStep(theta) = 6 -> Trig("e", -1, BNeg(BResidue3))
      [] ThetaStep(theta) = 7 -> Trig("r", 1, BRootHalf(-2))

\* np.sin(np.deg2rad(theta)): exactly 0 only for theta = 0
Sint(theta) ==
    CASE theta = 0 -> Trig("0", 0, BZero)
      [] theta # 0 /\ ThetaStep(theta) = 0 -> Trig("e", -1, BNeg(BResidue(2)))
      [] ThetaStep(theta) = 1 -> Trig("r", 1, BRootHalf(-1))
      [] ThetaStep(theta) = 2 -> Trig("1", 1, BOne)
      [] ThetaStep(theta) = 3 -> Trig("r", 1, BRootHalf(0))
      [] ThetaStep(theta) = 4 -> Trig("e", 1, BResidue(1))
      [] ThetaStep(theta) = 5 -> Trig("r", -1, BNeg(BRootHalf(-1)))
      [] ThetaStep(theta) = 6 -> Trig("1", -1, BNeg(BOne))
      [] ThetaStep(theta) = 7 -> Trig("r", -1, BNeg(BRootHalf(1)))

\* the product of two trigonometric values without its rounding
TrigMulValue(u, w) ==
    CASE u.v = "0" \/ w.v = "0" -> FInt(0)
      [] u.v # "0" /\ w.v # "0" /\ (u.v = "e" \/ w.v = "e") -> Eps(u.s * w.s)
      [] u.v = "1" /\ w.v = "1" -> FInt(u.s * w.s)
      [] u.v = "r" /\ w.v = "r" -> Fin(u.s * w.s, 2)

\* u * w for two trigonometric values (cost**2, sint**2, cost * sint):
\* 0.7071067811865476 ** 2 is 0.5000000000000001, not 0.5
TrigMul(u, w) ==
    With(u, LAMBDA p : With(w, LAMBDA q :
        WithBits(TrigMulValue(p, q), BMul(p.x, q.x))))

(* ------------------------- the constructor's steps -------------------- *)
\* astropy.stats.gaussian_fwhm_to_sigma ** 2 = 1 / (8 ln 2) = 0.180336...,
\* taken as the convergent 11/61 = 0.180327...
gaussian_fwhm_to_sigma2 == Fin(11, 61)

\* astropy.stats.gaussian_fwhm_to_sigma = 0.42466090014400953, bit for bit
gaussian_fwhm_to_sigma == BNum(1, NDec(<<7650, 106, 8658, 9523>>), -54)

\* self.fwhm * gaussian_fwhm_to_sigma, held as a multiple of
\* gaussian_fwhm_to_sigma
SigmaOf(fwhm) ==
    With(fwhm, LAMBDA p : WithBits(p, BMul(Bits(p), gaussian_fwhm_to_sigma)))

\* if fwhm < 0
InvalidFwhm(fwhm) == FLt(fwhm, FInt(0))

\* A ratio check that lets ratio = 0 through (faulty variant of the check
\* below, used to show that C1 depends on the boundary of the check).
InvalidRatio_ZeroAccepted(ratio) ==
    FLt(ratio, FInt(0)) \/ FGt(ratio, FInt(1))

\* if ratio <= 0 or ratio > 1
InvalidRatio(ratio) == FLe(ratio, FInt(0)) \/ FGt(ratio, FInt(1))

\* if sigma_radius <= 0
InvalidSigmaRadius(sigma_radius) == FLe(sigma_radius, FInt(0))

\* xsigma ** 2, for a sigma held as a multiple of gaussian_fwhm_to_sigma
SigmaSquared(sigma) ==
    With(sigma, LAMBDA p :
        WithBits(MulValue(MulValue(p, p), gaussian_fwhm_to_sigma2),
                 BMul(Bits(p), Bits(p))))

\* (cost**2 / (2.0 * xsigma2)) + (sint**2 / (2.0 * ysigma2))
CoefA(cost, sint, xsigma2, ysigma2) ==
    XAdd(XDiv(TrigMul(cost, cost), XMul(FInt(2), xsigma2)),
         XDiv(TrigMul(sint, sint), XMul(FInt(2), ysigma2)))

\* 0.5 * cost * sint * ((1.0 / xsigma2) - (1.0 / ysigma2)); halving is exact,
\* so (0.5 * cost) * sint is 0.5 * (cost * sint) bit for bit
CoefB(cost, sint, xsigma2, ysigma2) ==
    XMul(XMul(Fin(1, 2), TrigMul(cost, sint)),
         XSub(XDiv(FInt(1), xsigma2), XDiv(FInt(1), ysigma2)))

\* (sint**2 / (2.0 * xsigma2)) + (cost**2 / (2.0 * ysigma2))
CoefC(cost, sint, xsigma2, ysigma2) ==
    XAdd(XDiv(TrigMul(sint, sint), XMul(FInt(2), xsigma2)),
         XDiv(TrigMul(cost, cost), XMul(FInt(2), ysigma2)))

\* 1.0 / xsigma2 divides two Python floats unless fwhm came as a numpy
\* scalar: Python raises ZeroDivisionError where numpy returns inf
PyDivRaises(fwhm_is_numpy, xsigma2, ysigma2) ==
    ~fwhm_is_numpy /\ (xsigma2 = FInt(0) \/ ysigma2 = FInt(0))

\* sigma_radius**2 / 2.0
EllipseLevel(sigma_radius) == FDiv(FMul(sigma_radius, sigma_radius), FInt(2))

\* (a * c) - b**2
EllipseDenom(a, b, c) == FSub(FMul(a, c), FMul(b, b))

RECURSIVE ISqrtFrom(_, _)
ISqrtFrom(n, r) == IF (r + 1) * (r + 1) > n THEN r ELSE ISqrtFrom(n, r + 1)

\* what math.sqrt(q) and int() raise: a negative operand is a math domain
\* error, an infinite root cannot be converted to an integer
SqrtError(q) ==
    IF ~IsNaN(q) /\ Sign(q) < 0 THEN "ValueError"
    ELSE IF q = Inf(1) THEN "OverflowError"
    ELSE "none"

\* A half extent clamped below at 1 instead of 2 (faulty variant of the
\* operator below, used to show that C2 depends on the clamp).
HalfExtent_ClampOne(q) ==
    IF q.k = "fin" /\ FGt(q, FInt(1)) THEN ISqrtFrom(q.n \div q.d, 1) ELSE 1

\* int(max(2, math.sqrt(q))): max keeps 2 unless sqrt(q) > 2, so a nan root
\* gives 2
HalfExtent(q) ==
    IF q.k = "fin" /\ FGt(q, FInt(4)) THEN ISqrtFrom(q.n \div q.d, 2) ELSE 2

\* 2 * int(max(2, math.sqrt(q))) + 1
GridSize(q) == 2 * HalfExtent(q) + 1

\* the index set of an array of shape (ny, nx): <<y, x>>
Pixels(ny, nx) == (0 .. ny - 1) \X (0 .. nx - 1)

\* np.sqrt((xx - xc)**2 + (yy - yc)**2), the root kept as its radicand
CircularRadius(ny, nx, yc, xc) ==
    [p \in Pixels(ny, nx) |->
        [sqrt_of |-> (p[2] - xc) * (p[2] - xc) + (p[1] - yc) * (p[1] - yc)]]

\* r <= bound for a symbolic root r and an integer bound >= 0
SqrtLe(r, bound) == r.sqrt_of <= bound * bound

\* a*(xx - xc)**2 + 2.0*b*(xx - xc)*(yy - yc) + c*(yy - yc)**2
EllipticalRadius(a, b, c, ny, nx, yc, xc) ==
    [p \in Pixels(ny, nx) |->
        LET dx == p[2] - xc
            dy == p[1] - yc
        IN  FAdd(FAdd(FMul(a, FInt(dx * dx)),
                      FMul(FMul(FMul(FInt(2), b), FInt(dx)), FInt(dy))),
                 FMul(c, FInt(dy * dy)))]

\* A mask that needs both conditions (faulty variant of the operator below,
\* used to show that C6 depends on the disjunction).
Mask_Conjunction(elliptical_radius, circular_radius, f) ==
    [p \in DOMAIN elliptical_radius |->
        IF FLe(elliptical_radius[p], f) /\ SqrtLe(circular_radius[p], 2)
        THEN 1 ELSE 0]

\* A mask without the central circle (faulty variant of the operator below,
\* used to show that C10 depends on the circular term).
Mask_EllipseOnly(elliptical_radius, circular_radius, f) ==
    [p \in DOMAIN elliptical_radius |->
        IF FLe(elliptical_radius[p], f) THEN 1 ELSE 0]

\* np.where((elliptical_radius <= f) | (circular_radius <= 2.0), 1, 0)
Mask(elliptical_radius, circular_radius, f) ==
    [p \in DOMAIN elliptical_radius |->
        IF FLe(elliptical_radius[p], f) \/ SqrtLe(circular_radius[p], 2)
        THEN 1 ELSE 0]

\* mask.sum() of an integer array
MaskSum(mask) == Cardinality({p \in DOMAIN mask : mask[p] = 1})

\* np.exp(-elliptical_radius)
GaussianUnmasked(elliptical_radius) ==
    [p \in DOMAIN elliptical_radius |-> FExpNeg(elliptical_radius[p])]

\* gaussian_kernel_unmasked * mask
GaussianKernel(unmasked, mask) ==
    [p \in DOMAIN unmasked |-> FMul(unmasked[p], FInt(mask[p]))]

\* the sum of entries lo .. hi of an array of width nx, counted in row-major
\* order and added pairwise, as np.sum does
RECURSIVE SumRange(_, _, _, _)
SumRange(arr, nx, lo, hi) ==
    IF lo > hi THEN FInt(0)
    ELSE IF lo = hi THEN arr[<<lo \div nx, lo % nx>>]
    ELSE LET mid == (lo + hi) \div 2
         IN  FAdd(SumRange(arr, nx, lo, mid), SumRange(arr, nx, mid + 1, hi))

\* arr.sum() for an array of shape (ny, nx)
ArraySum(arr, ny, nx) ==
    With(arr, LAMBDA values : SumRange(values, nx, 0, ny * nx - 1))

\* (gaussian_kernel**2).sum() - (gaussian_kernel.sum()**2 / npixels)
VarianceDenom(gaussian_kernel, npixels, ny, nx) ==
    LET squares == [p \in DOMAIN gaussian_kernel |->
                       FMul(gaussian_kernel[p], gaussian_kernel[p])]
    IN  With(ArraySum(gaussian_kernel, ny, nx), LAMBDA total :
            FSub(ArraySum(squares, ny, nx),
                 FDiv(FMul(total, total), FInt(npixels))))

\* 1.0 / np.sqrt(denom), the root kept as its radicand
Relerr(denom) == [inv_sqrt_of |-> denom]

\* ((gaussian_kernel - (gaussian_kernel.sum() / npixels)) / denom) * mask
ZeroSumData(gaussian_kernel, mask, npixels, denom, ny, nx) ==
    With(FDiv(ArraySum(gaussian_kernel, ny, nx), FInt(npixels)), LAMBDA mean :
        [p \in DOMAIN gaussian_kernel |->
            FMul(FDiv(FSub(gaussian_kernel[p], mean), denom), FInt(mask[p]))])

(* ------------------------------- state -------------------------------- *)
VARIABLES pc, args, self, locals, error, returned

vars == <<pc, args, self, locals, error, returned>>

Empty == [x \in {} |-> 0]

Fwhms == {FInt(i) : i \in -1 .. MaxFwhm}

Ratios == {PyFloat(i, RatioDen) : i \in 0 .. MaxRatioNum}

SigmaRadii == {PyFloat(i, SigmaDen) : i \in 0 .. MaxSigmaNum}

Thetas == {45 * i : i \in 0 .. MaxThetaStep}

Init ==
    /\ pc = "idle"
    /\ args = Empty
    /\ self = Empty
    /\ locals = Empty
    /\ error = "none"
    /\ returned = FALSE

\* _StarFinderKernel(fwhm, ratio, theta, sigma_radius, normalize_zerosum)
Call ==
    /\ pc = "idle"
    /\ \E fwhm \in Fwhms, ratio \in Ratios, theta \in Thetas,
          sigma_radius \in SigmaRadii, normalize_zerosum \in BOOLEAN,
          fwhm_is_numpy \in BOOLEAN :
          args' = [fwhm |-> fwhm, ratio |-> ratio, theta |-> theta,
                   sigma_radius |-> sigma_radius,
                   normalize_zerosum |-> normalize_zerosum,
                   fwhm_is_numpy |-> fwhm_is_numpy]
    /\ pc' = "validate"
    /\ UNCHANGED <<self, locals, error, returned>>

\* the three checks that raise ValueError
Validate ==
    /\ pc = "validate"
    /\ IF \/ InvalidFwhm(args.fwhm)
          \/ InvalidRatio(args.ratio)
          \/ InvalidSigmaRadius(args.sigma_radius)
       THEN pc' = "raised" /\ error' = "ValueError"
       ELSE pc' = "store" /\ error' = error
    /\ UNCHANGED <<args, self, locals, returned>>

\* self.fwhm ... self.ysigma; the sigmas are held as multiples of
\* gaussian_fwhm_to_sigma
StoreParams ==
    /\ pc = "store"
    /\ self' = [fwhm |-> args.fwhm, ratio |-> args.ratio,
                theta |-> args.theta, sigma_radius |-> args.sigma_radius,
                xsigma |-> SigmaOf(args.fwhm),
                ysigma |-> XMul(SigmaOf(args.fwhm), args.ratio)]
    /\ pc' = "coefficients"
    /\ UNCHANGED <<args, locals, error, returned>>

\* theta_radians ... self.c
Coefficients ==
    /\ pc = "coefficients"
    /\ \E cost \in {Cost(self.theta)}, sint \in {Sint(self.theta)},
          xsigma2 \in {SigmaSquared(self.xsigma)},
          ysigma2 \in {SigmaSquared(self.ysigma)} :
           /\ locals' = [cost |-> cost, sint |-> sint,
                         xsigma2 |-> xsigma2, ysigma2 |-> ysigma2]
           /\ IF PyDivRaises(args.fwhm_is_numpy, xsigma2, ysigma2)
              THEN /\ self' = self @@
                        [a |-> CoefA(cost, sint, xsigma2, ysigma2)]
                   /\ pc' = "raised"
                   /\ error' = "ZeroDivisionError"
              ELSE /\ self' = self @@
                        [a |-> CoefA(cost, sint, xsigma2, ysigma2),
                         b |-> CoefB(cost, sint, xsigma2, ysigma2),
                         c |-> CoefC(cost, sint, xsigma2, ysigma2)]
                   /\ pc' = "extent"
                   /\ error' = error
    /\ UNCHANGED <<args, returned>>

\* self.f ... self.yradius
Extent ==
    /\ pc = "extent"
    /\ \E f \in {EllipseLevel(self.sigma_radius)},
          denom \in {EllipseDenom(self.a, self.b, self.c)} :
       \E qx \in {FDiv(FMul(self.c, f), denom)},
          qy \in {FDiv(FMul(self.a, f), denom)} :
           /\ locals' = locals @@ [denom |-> denom]
           /\ IF SqrtError(qx) # "none"
              THEN /\ self' = self @@ [f |-> f]
                   /\ pc' = "raised"
                   /\ error' = SqrtError(qx)
              ELSE IF SqrtError(qy) # "none"
              THEN /\ self' = self @@ [f |-> f, nx |-> GridSize(qx)]
                   /\ pc' = "raised"
                   /\ error' = SqrtError(qy)
              ELSE \E nx \in {GridSize(qx)}, ny \in {GridSize(qy)} :
                   /\ self' = self @@
                        [f |-> f, nx |-> nx, ny |-> ny,
                         xc |-> nx \div 2, xradius |-> nx \div 2,
                         yc |-> ny \div 2, yradius |-> ny \div 2]
                   /\ pc' = "grid"
                   /\ error' = error
    /\ UNCHANGED <<args, returned>>

\* np.mgrid, self.circular_radius, self.elliptical_radius
Grid ==
    /\ pc = "grid"
    /\ self' = self @@
          [circular_radius |->
               CircularRadius(self.ny, self.nx, self.yc, self.xc),
           elliptical_radius |->
               EllipticalRadius(self.a, self.b, self.c,
                                self.ny, self.nx, self.yc, self.xc)]
    /\ pc' = "mask"
    /\ UNCHANGED <<args, locals, error, returned>>

\* self.mask, self.npixels
MaskStep ==
    /\ pc = "mask"
    /\ \E mask \in {Mask(self.elliptical_radius, self.circular_radius, self.f)} :
           self' = self @@ [mask |-> mask, npixels |-> MaskSum(mask)]
    /\ pc' = "gaussian"
    /\ UNCHANGED <<args, locals, error, returned>>

\* self.gaussian_kernel_unmasked, self.gaussian_kernel
Gaussian ==
    /\ pc = "gaussian"
    /\ \E unmasked \in {GaussianUnmasked(self.elliptical_radius)} :
           self' = self @@
              [gaussian_kernel_unmasked |-> unmasked,
               gaussian_kernel |-> GaussianKernel(unmasked, self.mask)]
    /\ pc' = "relerr"
    /\ UNCHANGED <<args, locals, error, returned>>

\* denom = variance * npixels, self.relerr
Statistics ==
    /\ pc = "relerr"
    /\ \E denom \in {VarianceDenom(self.gaussian_kernel, self.npixels,
                                     self.ny, self.nx)} :
           /\ locals' = [locals EXCEPT !.denom = denom]
           /\ self' = self @@ [relerr |-> Relerr(denom)]
    /\ pc' = "normalize"
    /\ UNCHANGED <<args, error, returned>>

\* self.data, self.shape, and the return to the caller
Normalize ==
    /\ pc = "normalize"
    /\ LET data == IF args.normalize_zerosum
                   THEN ZeroSumData(self.gaussian_kernel, self.mask,
                                    self.npixels, locals.denom,
                                    self.ny, self.nx)
                   ELSE self.gaussian_kernel
       IN  self' = self @@ [data |-> data, shape |-> <<self.ny, self.nx>>]
    /\ pc' = "done"
    /\ returned' = TRUE
    /\ UNCHANGED <<args, locals, error>>

Next ==
    \/ Call
    \/ Validate
    \/ StoreParams
    \/ Coefficients
    \/ Extent
    \/ Grid
    \/ MaskStep
    \/ Gaussian
    \/ Statistics
    \/ Normalize

Spec == Init /\ [][Next]_vars

(* ------------------- a whole construction, as a value ----------------- *)
\* The kernel a call that runs to its end returns: the steps above composed
\* in program order.
KernelOf(fwhm, ratio, theta, sigma_radius, normalize_zerosum) ==
    LET cost == Cost(theta)
        sint == Sint(theta)
        xsigma2 == SigmaSquared(SigmaOf(fwhm))
        ysigma2 == SigmaSquared(XMul(SigmaOf(fwhm), ratio))
        a == CoefA(cost, sint, xsigma2, ysigma2)
        b == CoefB(cost, sint, xsigma2, ysigma2)
        c == CoefC(cost, sint, xsigma2, ysigma2)
        f == EllipseLevel(sigma_radius)
        denom == EllipseDenom(a, b, c)
        nx == GridSize(FDiv(FMul(c, f), denom))
        ny == GridSize(FDiv(FMul(a, f), denom))
        elliptical_radius ==
            EllipticalRadius(a, b, c, ny, nx, ny \div 2, nx \div 2)
        mask == Mask(elliptical_radius,
                     CircularRadius(ny, nx, ny \div 2, nx \div 2), f)
        npixels == MaskSum(mask)
        gaussian_kernel ==
            GaussianKernel(GaussianUnmasked(elliptical_radius), mask)
        data == IF normalize_zerosum
                THEN ZeroSumData(gaussian_kernel, mask, npixels,
                                 VarianceDenom(gaussian_kernel, npixels, ny, nx),
                                 ny, nx)
                ELSE gaussian_kernel
    IN  [a |-> a, b |-> b, c |-> c, nx |-> nx, ny |-> ny,
         mask |-> mask, data |-> data]

\* The largest nx * ny a construction may allocate.  The constructor
\* compares nx * ny with nothing; 25 is the least bound that admits the
\* smallest (5 x 5) grid.
MaxKernelPixels == 25

(* ------------------------------ properties ---------------------------- *)
Has(attr) == attr \in DOMAIN self

Center == <<self.yc, self.xc>>

\* x and y are equal to within roundoff: the same number once the rounding
\* residues are left out
FClose(x, y) == ~IsNaN(x) /\ ~IsNaN(y) /\ SameValue(x, y)

\* x == y as far as it is decided: FEq where the binary64 numbers of x and y
\* are known, the same n/d where a rounding is not followed
FEqWhereFollowed(x, y) ==
    IF Followed(x) /\ Followed(y) THEN FEq(x, y) ELSE FClose(x, y)

\* the offsets (dy, dx) with dx^2 + dy^2 <= 4
CircleOffsets ==
    {o \in (-2 .. 2) \X (-2 .. 2) : o[1] * o[1] + o[2] * o[2] <= 4}

\* the arguments of the call in progress are ones the three checks are
\* documented to refuse
RejectedArgs ==
    \/ FLt(args.fwhm, FInt(0))
    \/ FLe(args.ratio, FInt(0))
    \/ FGt(args.ratio, FInt(1))
    \/ FLe(args.sigma_radius, FInt(0))

\* C1: a call with fwhm < 0, ratio <= 0, ratio > 1 or sigma_radius <= 0 never
\* gets past validation: it ends in ValueError with no attribute stored, no
\* local computed and no object returned.
C1_RejectedBeforeAnyAttribute ==
    (pc # "idle" /\ RejectedArgs) =>
        /\ pc \in {"validate", "raised"}
        /\ pc = "raised" => error = "ValueError"
        /\ self = Empty
        /\ locals = Empty
        /\ ~returned

\* a call refused only for its sigma_radius (the last of the three checks)
C1_Witness ==
    /\ pc = "raised"
    /\ error = "ValueError"
    /\ FGt(args.fwhm, FInt(0))
    /\ FGt(args.ratio, FInt(0)) /\ FLe(args.ratio, FInt(1))
    /\ FEq(args.sigma_radius, FInt(0))
    /\ self = Empty

\* C2: once stored, nx and ny are odd and at least 5.
C2_GridSizesOddAtLeastFive ==
    /\ Has("nx") => self.nx % 2 = 1 /\ self.nx >= 5
    /\ Has("ny") => self.ny % 2 = 1 /\ self.ny >= 5

\* a kernel whose ellipse is far smaller than the minimum grid
C2_Witness ==
    /\ pc = "grid"
    /\ FEq(args.fwhm, FInt(1))
    /\ FLe(args.sigma_radius, Fin(1, 2))
    /\ self.nx = 5
    /\ self.ny = 5

\* C3: with normalize_zerosum the elements of data of a returned kernel sum
\* to zero, to within roundoff.
C3_DataSumsToZero ==
    (returned /\ args.normalize_zerosum) =>
        FClose(ArraySum(self.data, self.ny, self.nx), FInt(0))

\* the returned zero-sum kernel whose data do not sum to a number
C3_Witness ==
    /\ returned
    /\ args.normalize_zerosum
    /\ IsNaN(ArraySum(self.data, self.ny, self.nx))

\* C3 for the calls with fwhm > 0
C3_DataSumsToZero_PositiveFwhm ==
    (returned /\ args.normalize_zerosum /\ FGt(args.fwhm, FInt(0))) =>
        FClose(ArraySum(self.data, self.ny, self.nx), FInt(0))

\* C4: data of a returned kernel is zero wherever mask is zero.
C4_DataZeroOutsideMask ==
    returned =>
        \A p \in DOMAIN self.mask :
            self.mask[p] = 0 => FEq(self.data[p], FInt(0))

\* a returned kernel with a pixel outside the mask whose data is not a number
C4_Witness ==
    /\ returned
    /\ \E p \in DOMAIN self.mask : self.mask[p] = 0 /\ IsNaN(self.data[p])

\* C4 for the calls with fwhm > 0
C4_DataZeroOutsideMask_PositiveFwhm ==
    (returned /\ FGt(args.fwhm, FInt(0))) =>
        \A p \in DOMAIN self.mask :
            self.mask[p] = 0 => FEq(self.data[p], FInt(0))

\* the derived quantities of the kernel under construction are degenerate:
\* a*c - b^2 is not greater than zero, or the mask has at most one pixel, or
\* the variance term is not greater than zero
Degenerate ==
    \/ ~FGt(EllipseDenom(self.a, self.b, self.c), FInt(0))
    \/ self.npixels <= 1
    \/ ~FGt(VarianceDenom(self.gaussian_kernel, self.npixels,
                          self.ny, self.nx), FInt(0))

\* C5: a construction whose derived quantities are degenerate returns no
\* kernel object; in particular a call with fwhm = 0 returns none.
C5_DegenerateNotReturned ==
    returned => ~Degenerate /\ ~FEq(args.fwhm, FInt(0))

\* the kernel returned for fwhm = 0
C5_Witness ==
    /\ returned
    /\ FEq(args.fwhm, FInt(0))
    /\ Degenerate

\* C5 the other way round: the calls with fwhm > 0 are never degenerate
C5_PositiveFwhmNotDegenerate ==
    (returned /\ FGt(args.fwhm, FInt(0))) => ~Degenerate

\* C6: mask is 1 exactly where elliptical_radius <= f or
\* circular_radius <= 2 and 0 elsewhere; npixels is the number of ones and is
\* at least 1.
C6_MaskIsEllipseOrCircle ==
    Has("npixels") =>
        /\ \A p \in DOMAIN self.mask :
              /\ self.mask[p] \in {0, 1}
              /\ self.mask[p] = 1 <=>
                    \/ FLe(self.elliptical_radius[p], self.f)
                    \/ self.circular_radius[p].sqrt_of <= 4
        /\ self.npixels = Cardinality({p \in DOMAIN self.mask :
                                          self.mask[p] = 1})
        /\ self.npixels >= 1

\* a mask with a pixel inside the ellipse but outside the circle, a pixel
\* inside the circle but outside the ellipse, and a pixel outside both
C6_Witness ==
    /\ Has("npixels")
    /\ \E p \in DOMAIN self.mask :
          /\ self.mask[p] = 1
          /\ self.circular_radius[p].sqrt_of > 4
    /\ \E p \in DOMAIN self.mask :
          /\ self.mask[p] = 1
          /\ ~FLe(self.elliptical_radius[p], self.f)
    /\ \E p \in DOMAIN self.mask : self.mask[p] = 0

\* C7: the center is (ny div 2, nx div 2), the radii equal the center
\* indices, elliptical_radius is 0 there, and gaussian_kernel_unmasked is 1
\* there and nowhere larger.
C7_CenterIsPeakOfOne ==
    Has("gaussian_kernel_unmasked") =>
        /\ self.yc = self.ny \div 2 /\ self.xc = self.nx \div 2
        /\ self.xradius = self.xc /\ self.yradius = self.yc
        /\ FEq(self.elliptical_radius[Center], FInt(0))
        /\ FEq(self.gaussian_kernel_unmasked[Center], FInt(1))
        /\ \A p \in DOMAIN self.gaussian_kernel_unmasked :
              FLe(self.gaussian_kernel_unmasked[p],
                  self.gaussian_kernel_unmasked[Center])

\* a kernel whose center pixel is not a number
C7_Witness ==
    /\ Has("gaussian_kernel_unmasked")
    /\ IsNaN(self.elliptical_radius[Center])
    /\ IsNaN(self.gaussian_kernel_unmasked[Center])

\* C7 for the calls with fwhm > 0
C7_CenterIsPeakOfOne_PositiveFwhm ==
    (Has("gaussian_kernel_unmasked") /\ FGt(args.fwhm, FInt(0))) =>
        /\ self.yc = self.ny \div 2 /\ self.xc = self.nx \div 2
        /\ self.xradius = self.xc /\ self.yradius = self.yc
        /\ FEq(self.elliptical_radius[Center], FInt(0))
        /\ FEq(self.gaussian_kernel_unmasked[Center], FInt(1))
        /\ \A p \in DOMAIN self.gaussian_kernel_unmasked :
              FLe(self.gaussian_kernel_unmasked[p],
                  self.gaussian_kernel_unmasked[Center])

\* the returned kernel equals, in a, c, mask and data, the kernel the same
\* call would return with the angle theta2: a and c bit for bit, data as far
\* as its roundings are followed
SameAsWithTheta(theta2) ==
    LET other == KernelOf(args.fwhm, args.ratio, theta2, args.sigma_radius,
                          args.normalize_zerosum)
    IN  /\ FEq(self.a, other.a)
        /\ FEq(self.c, other.c)
        /\ self.mask = other.mask
        /\ DOMAIN self.data = DOMAIN other.data
        /\ \A p \in DOMAIN self.data :
              FEqWhereFollowed(self.data[p], other.data[p])

\* C8: with ratio = 1 the angle has no effect: b is 0, nx = ny, and a, c,
\* mask and data are those of every other angle.
C8_ThetaIrrelevantWhenCircular ==
    (returned /\ FEq(args.ratio, FInt(1))) =>
        /\ FEq(self.b, FInt(0))
        /\ self.nx = self.ny
        /\ \A theta2 \in Thetas : SameAsWithTheta(theta2)

\* a returned circular kernel whose b is not a number
C8_Witness ==
    /\ returned
    /\ FEq(args.ratio, FInt(1))
    /\ IsNaN(self.b)

\* as SameAsWithTheta, with a, c and data compared to within roundoff
CloseToWithTheta(theta2) ==
    LET other == KernelOf(args.fwhm, args.ratio, theta2, args.sigma_radius,
                          args.normalize_zerosum)
    IN  /\ FClose(self.a, other.a)
        /\ FClose(self.c, other.c)
        /\ self.mask = other.mask
        /\ DOMAIN self.data = DOMAIN other.data
        /\ \A p \in DOMAIN self.data : FClose(self.data[p], other.data[p])

\* C8 for the calls with fwhm > 0, to within roundoff: b is exactly 0, the
\* grid is square, the mask is the same, and a, c and data agree up to their
\* rounding
C8_ThetaIrrelevantWhenCircular_PositiveFwhm_Roundoff ==
    (returned /\ FEq(args.ratio, FInt(1)) /\ FGt(args.fwhm, FInt(0))) =>
        /\ FEq(self.b, FInt(0))
        /\ self.nx = self.ny
        /\ \A theta2 \in Thetas : CloseToWithTheta(theta2)

\* a returned circular kernel with fwhm > 0 whose a is not, bit for bit, the
\* a of theta = 0: cost**2 is 0.5000000000000001 at 45 degrees
C8_RoundingDifference ==
    /\ returned
    /\ FEq(args.ratio, FInt(1))
    /\ FGt(args.fwhm, FInt(0))
    /\ FClose(self.a, KernelOf(args.fwhm, args.ratio, 0, args.sigma_radius,
                               args.normalize_zerosum).a)
    /\ ~FEq(self.a, KernelOf(args.fwhm, args.ratio, 0, args.sigma_radius,
                             args.normalize_zerosum).a)

\* the same kernels with fwhm = 3, where the roundings cancel: a is the a of
\* theta = 0 bit for bit at every angle
C8_NoRoundingDifferenceAtThree ==
    (returned /\ FEq(args.ratio, FInt(1)) /\ FEq(args.fwhm, FInt(3))) =>
        \A theta2 \in Thetas : SameAsWithTheta(theta2)

\* C9: no grid is allocated for a kernel of more than MaxKernelPixels
\* pixels: the construction fails before the grid step instead.
C9_GridWithinConfiguredMaximum ==
    Has("circular_radius") => self.nx * self.ny <= MaxKernelPixels

\* a grid allocated for more pixels than the maximum, with no error raised
C9_Witness ==
    /\ Has("circular_radius")
    /\ self.nx * self.ny > MaxKernelPixels
    /\ error = "none"

\* C10: the 13 pixels within distance 2 of the center are inside the grid
\* and in the mask, so npixels is at least 13.
C10_CentralCircleInMask ==
    /\ Cardinality(CircleOffsets) = 13
    /\ Has("mask") =>
          \A o \in CircleOffsets :
              /\ <<self.yc + o[1], self.xc + o[2]>> \in DOMAIN self.mask
              /\ self.mask[<<self.yc + o[1], self.xc + o[2]>>] = 1
    /\ Has("npixels") => self.npixels >= 13

\* the most elongated rotated kernel of the smallest width: its ellipse
\* holds fewer than 13 pixels, the mask exactly 13
C10_Witness ==
    /\ returned
    /\ FEq(args.fwhm, FInt(1))
    /\ FLt(args.ratio, Fin(1, 2))
    /\ args.theta = 45
    /\ self.npixels = 13
    /\ Cardinality({p \in DOMAIN self.mask :
                       FLe(self.elliptical_radius[p], self.f)}) < 13

=============================================================================
